---------------------------- MODULE Spec2Model ----------------------------
(***************************************************************************)
(* A model of scripts/convert-schema-to-sqlite.py: the command line of     *)
(* __main__, and convert_schema's read, ordered regular-expression rules,  *)
(* comment insertion, write and summary.                                   *)
(*                                                                         *)
(* Text is a sequence of one-character strings.  Python's re.sub is        *)
(* modelled by a backtracking matcher over the pattern elements the        *)
(* script's patterns use (literal characters, \b, and the greedy classes   *)
(* \w+, [^"]+ and [^)]+), scanning left to right for non-overlapping       *)
(* matches; str.find and str.replace are modelled likewise.                *)
(***************************************************************************)
EXTENDS Naturals, Integers, Sequences, FiniteSets

VARIABLES argv, files, pc, input_file, output_file, content, stdout, opens,
          raised

vars == <<argv, files, pc, input_file, output_file, content, stdout, opens,
          raised>>

(***************************************************************************)
(* Bounds of the model.                                                    *)
(***************************************************************************)
\* the most fragments an input text of Spec is put together from
MaxFrags == 3
\* the most fragments an input text of CliSpec is put together from
MaxCliFrags == 1
\* the most characters a failed write leaves behind in the output file
MaxPartial == 1

(***************************************************************************)
(* The string literals of the script.                                      *)
(***************************************************************************)
PgCoreImport ==
  <<"f","r","o","m"," ","\"","d","r","i","z","z","l","e","-","o","r","m",
    "/","p","g","-","c","o","r","e","\"">>

SqliteCoreImport ==
  <<"f","r","o","m"," ","\"","d","r","i","z","z","l","e","-","o","r","m",
    "/","s","q","l","i","t","e","-","c","o","r","e","\"">>

PgTableWord ==
  <<"p","g","T","a","b","l","e">>

SqliteTableWord ==
  <<"s","q","l","i","t","e","T","a","b","l","e">>

ExportConst ==
  <<"e","x","p","o","r","t"," ","c","o","n","s","t"," ">>

EnumEqPgEnum ==
  <<"E","n","u","m"," ","="," ","p","g","E","n","u","m","(">>

VarcharCall ==
  <<"v","a","r","c","h","a","r","(">>

TextCall ==
  <<"t","e","x","t","(">>

TimestampOpen ==
  <<"t","i","m","e","s","t","a","m","p","(","\"">>

IntegerOpen ==
  <<"i","n","t","e","g","e","r","(","\"">>

\* the tail of the replacement of the timestamp rule: in the raw string an
\* escaped quote is a backslash and a quote, and the template of re.sub
\* keeps a backslash that escapes no letter or digit
TimestampMode ==
  <<"\"",","," ","{"," ","m","o","d","e",":"," ","\\","'","t","i","m","e",
    "s","t","a","m","p","\\","'"," ","}",")">>

JsonbCall ==
  <<"j","s","o","n","b","(">>

DecimalCall ==
  <<"d","e","c","i","m","a","l","(">>

RealCall ==
  <<"r","e","a","l","(">>

DateCall ==
  <<"d","a","t","e","(">>

EnumWord ==
  <<"E","n","u","m">>

TextOpen ==
  <<"t","e","x","t","(","\"">>

\* the character ` (a string of the module cannot hold it)
Backtick == "grave"

PgUuidDefault ==
  <<".","d","e","f","a","u","l","t","(","s","q","l",Backtick,"g","e","n",
    "_","r","a","n","d","o","m","_","u","u","i","d","(",")",Backtick,")">>

SqliteUuidDefault ==
  <<".","d","e","f","a","u","l","t","(","s","q","l",Backtick,"(","l","o",
    "w","e","r","(","h","e","x","(","r","a","n","d","o","m","b","l","o","b",
    "(","1","6",")",")",")",")",Backtick,")">>

DefaultNowCall ==
  <<".","d","e","f","a","u","l","t","N","o","w","(",")">>

\* the tail of the pattern of step 7, where an escaped quote matches a quote
TsDefaultTail ==
  <<"\"",","," ","{"," ","m","o","d","e",":"," ","'","t","i","m","e","s",
    "t","a","m","p","'"," ","}",")",".","d","e","f","a","u","l","t">>

\* the tail of the replacement of step 7, backslashes kept as in step 4
TsDefaultReplTail ==
  <<"\"",","," ","{"," ","m","o","d","e",":"," ","\\","'","t","i","m","e",
    "s","t","a","m","p","\\","'"," ","}",")",".","d","e","f","a","u","l","t">>

ZodImport ==
  <<"i","m","p","o","r","t"," ","{"," ","z"," ","}"," ","f","r","o","m"," ",
    "\"","z","o","d","\"",";">>

\* enum_comment: its empty first line, its first comment line and its empty
\* last line.  The thirteen comment lines between them are left out: they
\* are // comment text in which no pattern of the script occurs.
enum_comment ==
  <<"\n","/","/"," ","S","Q","L","i","t","e"," ","S","c","h","e","m","a",
    " ","-"," ","C","o","n","v","e","r","t","e","d"," ","f","r","o","m"," ",
    "P","o","s","t","g","r","e","S","Q","L","\n","\n">>

DefaultInput ==
  <<"s","h","a","r","e","d","/","s","c","h","e","m","a",".","t","s">>

DefaultOutput ==
  <<"s","h","a","r","e","d","/","s","c","h","e","m","a","-","s","q","l","i",
    "t","e",".","t","s">>

DotTs ==
  <<".","t","s">>

SqliteDotTs ==
  <<"-","s","q","l","i","t","e",".","t","s">>

(***************************************************************************)
(* Python's re: pattern elements, the matcher and re.sub.                  *)
(***************************************************************************)
\* the characters \w matches (of the ASCII range)
WordChars ==
  {"a","b","c","d","e","f","g","h","i","j","k","l","m","n","o","p","q","r",
   "s","t","u","v","w","x","y","z","A","B","C","D","E","F","G","H","I","J",
   "K","L","M","N","O","P","Q","R","S","T","U","V","W","X","Y","Z","0","1",
   "2","3","4","5","6","7","8","9","_"}

\* a literal string as a pattern element
Lit(str) == <<[k |-> "lit", s |-> str, c |-> ""]>>

\* \b
Wb == <<[k |-> "wb", s |-> <<>>, c |-> ""]>>

\* a greedy one-or-more of a character class: \w+ ("w"), [^"]+ ("nq"),
\* [^)]+ ("np")
Plus(class) == <<[k |-> "plus", s |-> <<>>, c |-> class]>>

\* an optional character: ;?
Opt(ch) == <<[k |-> "opt", s |-> <<ch>>, c |-> ""]>>

\* class "nl" (every character but a newline) is no class of the script's
\* patterns: it cuts a text into lines
InClass(class, ch) ==
  CASE class = "w" -> ch \in WordChars
    [] class = "nq" -> ch # "\""
    [] class = "np" -> ch # ")"
    [] class = "nl" -> ch # "\n"

\* \b at position i (between s[i-1] and s[i]): exactly one side is a word
\* character
AtBoundary(s, i) ==
  LET before == i > 1 /\ s[i-1] \in WordChars
      after == i <= Len(s) /\ s[i] \in WordChars
  IN before # after

\* whether sub stands in s at the 1-based position i
OccursAt(s, sub, i) ==
  /\ i >= 1
  /\ i + Len(sub) - 1 <= Len(s)
  /\ \A j \in 1..Len(sub) : s[i + j - 1] = sub[j]

\* the length of the longest run of class characters starting at s[i]
RunLen(class, s, i) ==
  LET stops == {j \in i..Len(s) : ~InClass(class, s[j])}
  IN IF stops = {} THEN Len(s) + 1 - i
     ELSE (CHOOSE j \in stops : \A h \in stops : j <= h) - i

RECURSIVE Match(_, _, _, _)
RECURSIVE TryPlus(_, _, _, _, _)
\* The match of elements k.. of pattern p at position i of s, as the
\* positions where each of these elements starts followed by the position
\* after the match; <<>> when there is no match.  Alternatives are tried in
\* the order of Python's backtracking: the longest repetition first.
Match(p, k, s, i) ==
  IF k > Len(p) THEN <<i>>
  ELSE LET e == p[k] IN
    CASE e.k = "lit" ->
           IF OccursAt(s, e.s, i)
           THEN LET r == Match(p, k + 1, s, i + Len(e.s))
                IN IF r = <<>> THEN <<>> ELSE <<i>> \o r
           ELSE <<>>
      [] e.k = "wb" ->
           IF AtBoundary(s, i)
           THEN LET r == Match(p, k + 1, s, i)
                IN IF r = <<>> THEN <<>> ELSE <<i>> \o r
           ELSE <<>>
      [] e.k = "opt" ->
           LET with == IF OccursAt(s, e.s, i)
                       THEN Match(p, k + 1, s, i + 1) ELSE <<>>
               without == Match(p, k + 1, s, i)
           IN IF with # <<>> THEN <<i>> \o with
              ELSE IF without # <<>> THEN <<i>> \o without ELSE <<>>
      [] e.k = "plus" -> TryPlus(p, k, s, i, RunLen(e.c, s, i))

TryPlus(p, k, s, i, n) ==
  IF n < 1 THEN <<>>
  ELSE LET r == Match(p, k + 1, s, i + n)
       IN IF r # <<>> THEN <<i>> \o r ELSE TryPlus(p, k, s, i, n - 1)

\* a literal string as an item of a replacement template
LitR(str) == <<[g |-> 0, s |-> str]>>

\* a reference to the text that pattern element k matched (a group of one
\* element)
Group(k) == <<[g |-> k, s |-> <<>>]>>

RECURSIVE Expand(_, _, _, _)
\* the replacement template repl, from its item j on, for the match m of s
Expand(repl, j, s, m) ==
  IF j > Len(repl) THEN <<>>
  ELSE (IF repl[j].g = 0 THEN repl[j].s
        ELSE SubSeq(s, m[repl[j].g], m[repl[j].g + 1] - 1))
       \o Expand(repl, j + 1, s, m)

RECURSIVE SubFrom(_, _, _, _, _)
\* re.sub from position pos on, starts being the positions of s the pattern
\* matches at: the leftmost match at or after pos is replaced, the text
\* before it copied, and the scan goes on after the match
SubFrom(p, repl, s, starts, pos) ==
  LET left == {i \in starts : i >= pos} IN
    IF left = {} THEN SubSeq(s, pos, Len(s))
    ELSE LET i == CHOOSE x \in left : \A y \in left : x <= y
             m == Match(p, 1, s, i)
         IN SubSeq(s, pos, i - 1) \o Expand(repl, 1, s, m)
              \o SubFrom(p, repl, s, starts, m[Len(m)])

\* re.sub(p, repl, s)
Sub(p, repl, s) ==
  SubFrom(p, repl, s, {i \in 1..Len(s) : Match(p, 1, s, i) # <<>>}, 1)

(***************************************************************************)
(* Python's str.find, slicing and str.replace.                             *)
(***************************************************************************)
\* s.find(sub, start): the lowest 0-based index at or after start where sub
\* stands, or -1
Find(s, sub, start) ==
  LET hits == {i \in start..(Len(s) - Len(sub)) : OccursAt(s, sub, i + 1)}
  IN IF hits = {} THEN -1
     ELSE CHOOSE i \in hits : \A j \in hits : i <= j

\* s[:n] and s[n:], for n >= 0
SliceTo(s, n) == SubSeq(s, 1, IF n > Len(s) THEN Len(s) ELSE n)
SliceFrom(s, n) == SubSeq(s, n + 1, Len(s))

\* s.replace(old, new): every non-overlapping occurrence, left to right
StrReplace(s, old, new) == Sub(Lit(old), LitR(new), s)

Contains(s, sub) == Find(s, sub, 0) # -1

(***************************************************************************)
(* The rules of convert_schema, in the order the script applies them.      *)
(***************************************************************************)
\* Step 1
UpdateImports(c) == Sub(Lit(PgCoreImport), LitR(SqliteCoreImport), c)

\* Step 2: r'\bpgTable\b'
PgTablePattern == Wb \o Lit(PgTableWord) \o Wb
\* the rule with the pattern r'pgTable', its word boundaries forgotten
ReplacePgTableAnywhere(c) == Sub(Lit(PgTableWord), LitR(SqliteTableWord), c)
ReplacePgTable(c) == Sub(PgTablePattern, LitR(SqliteTableWord), c)

\* Step 3: r'export const \w+Enum = pgEnum\([^)]+\);?\n'
PgEnumDeclPattern ==
  Lit(ExportConst) \o Plus("w") \o Lit(EnumEqPgEnum) \o Plus("np")
    \o Lit(<<")">>) \o Opt(";") \o Lit(<<"\n">>)
RemovePgEnumDecls(c) == Sub(PgEnumDeclPattern, LitR(<<>>), c)

\* Step 4: r'\bvarchar\('
ReplaceVarchar(c) == Sub(Wb \o Lit(VarcharCall), LitR(TextCall), c)

\* Step 4: r'timestamp\("([^"]+)"\)' -> r'integer("\1", { mode: \'timestamp\' })'
TimestampPattern == Lit(TimestampOpen) \o Plus("nq") \o Lit(<<"\"", ")">>)
TimestampRepl ==
  LitR(IntegerOpen) \o Group(2) \o LitR(TimestampMode)
ReplaceTimestamp(c) == Sub(TimestampPattern, TimestampRepl, c)

\* Step 4: r'\bjsonb\('
ReplaceJsonb(c) == Sub(Wb \o Lit(JsonbCall), LitR(TextCall), c)

\* Step 4: r'\bdecimal\('
ReplaceDecimal(c) == Sub(Wb \o Lit(DecimalCall), LitR(RealCall), c)

\* Step 4: r'\bdate\('
ReplaceDate(c) == Sub(Wb \o Lit(DateCall), LitR(TextCall), c)

\* Step 5: enum_pattern = r'(\w+Enum)\("([^"]+)"\)' -> r'text("\2")'
enum_pattern ==
  Plus("w") \o Lit(EnumWord) \o Lit(<<"(", "\"">>) \o Plus("nq")
    \o Lit(<<"\"", ")">>)
EnumRepl == LitR(TextOpen) \o Group(4) \o LitR(<<"\"", ")">>)
ReplaceEnumRefs(c) == Sub(enum_pattern, EnumRepl, c)

\* Step 6: gen_random_uuid()
ReplaceUuidDefault(c) == Sub(Lit(PgUuidDefault), LitR(SqliteUuidDefault), c)

\* Step 6: r'\.defaultNow\(\)' -> ''
RemoveDefaultNow(c) == Sub(Lit(DefaultNowCall), LitR(<<>>), c)

\* Step 7: r'integer\("([^"]+)", \{ mode: \'timestamp\' \}\)\.default'
TsDefaultPattern == Lit(IntegerOpen) \o Plus("nq") \o Lit(TsDefaultTail)
TsDefaultRepl ==
  LitR(IntegerOpen) \o Group(2) \o LitR(TsDefaultReplTail)
FixTimestampDefaults(c) == Sub(TsDefaultPattern, TsDefaultRepl, c)

\* Steps 1 to 7
ApplyRules(c) ==
  FixTimestampDefaults(RemoveDefaultNow(ReplaceUuidDefault(ReplaceEnumRefs(
    ReplaceDate(ReplaceDecimal(ReplaceJsonb(ReplaceTimestamp(ReplaceVarchar(
      RemovePgEnumDecls(ReplacePgTable(UpdateImports(c))))))))))))

\* Step 8: the comment goes in after the line of the first zod import
InsertComment(c) ==
  LET import_end == Find(c, ZodImport, 0) IN
    IF import_end # -1
    THEN LET insert_pos == Find(c, <<"\n">>, import_end) + 1
         IN SliceTo(c, insert_pos) \o enum_comment \o SliceFrom(c, insert_pos)
    ELSE c

\* the text convert_schema writes for the text it read
Convert(c) == InsertComment(ApplyRules(c))

(***************************************************************************)
(* The inputs: schema texts put together from fragments, and command       *)
(* lines.                                                                  *)
(***************************************************************************)
FragDecl ==
  <<"e","x","p","o","r","t"," ","c","o","n","s","t"," ","a","E","n","u","m",
    " ","="," ","p","g","E","n","u","m","(","'","s","'",")",";">>

FragDefault ==
  <<".","d","e","f","a","u","l","t">>

FragNow ==
  <<"N","o","w","(",")">>

FragTimestamp ==
  <<"t","i","m","e","s","t","a","m","p","(","\"","c","\"",")">>

FragEnumUse ==
  <<"a","E","n","u","m","(","\"","c","\"",")">>

FragEnumUsePg ==
  <<"a","E","n","u","m","(","\"","p","g","T","a","b","l","e","\"",")">>

Frags ==
  { PgTableWord, <<"a">>, <<"\n">>, FragDecl, DefaultNowCall, FragDefault,
    FragNow, ZodImport, FragTimestamp, FragEnumUse, FragEnumUsePg, DateCall }

RECURSIVE Texts(_)
\* the texts of at most n fragments
Texts(n) ==
  IF n = 0 THEN {<<>>}
  ELSE {<<>>} \cup {f \o t : f \in Frags, t \in Texts(n - 1)}

Script == <<"c","o","n","v","e","r","t",".","p","y">>

PathTs ==
  <<"s",".","t","s">>

PathJs ==
  <<"s",".","j","s">>

PathTsTs ==
  <<"d",".","t","s","/","s",".","t","s">>

Paths == {PathTs, PathJs, PathTsTs}

\* sys.argv: the script's name, then no, one or two arguments
Argvs ==
  {<<Script>>} \cup {<<Script, p>> : p \in Paths}
    \cup {<<Script, p, q>> : p \in Paths, q \in Paths}

\* sys.argv[n]
ArgvAt(n) == argv[n + 1]

(***************************************************************************)
(* The state machine: __main__, then convert_schema statement by           *)
(* statement.  files is the file system (a path that is no file is not in  *)
(* its domain), opens counts the times the output path was opened for      *)
(* writing, raised names the statement whose exception ended the run.      *)
(***************************************************************************)
NoFiles == [p \in {} |-> <<>>]

\* the file system after text t was written to path p
Put(fs, p, t) ==
  [q \in (DOMAIN fs) \cup {p} |-> IF q = p THEN t ELSE fs[q]]

InitRun ==
  /\ pc = "main"
  /\ input_file = <<>>
  /\ output_file = <<>>
  /\ content = <<>>
  /\ stdout = <<>>
  /\ opens = 0
  /\ raised = "none"

\* the tool run without arguments on every schema text, or on no file
Init ==
  /\ argv = <<Script>>
  /\ files \in {NoFiles} \cup {Put(NoFiles, DefaultInput, t) : t \in Texts(MaxFrags)}
  /\ InitRun

\* the tool run with every command line, the first argument (or the default
\* input path) naming a file or not
CliInit ==
  /\ argv \in Argvs
  /\ files \in {NoFiles} \cup
       {Put(NoFiles, IF Len(argv) < 2 THEN DefaultInput ELSE argv[2], t) :
          t \in Texts(MaxCliFrags)}
  /\ InitRun

\* lines 107-115
Main ==
  /\ pc = "main"
  /\ IF Len(argv) < 2
     THEN /\ input_file' = DefaultInput
          /\ output_file' = DefaultOutput
     ELSE /\ input_file' = ArgvAt(1)
          /\ output_file' = IF Len(argv) > 2 THEN ArgvAt(2)
                            ELSE StrReplace(ArgvAt(1), DotTs, SqliteDotTs)
  /\ pc' = "read"
  /\ UNCHANGED <<argv, files, content, stdout, opens, raised>>

\* lines 11-12: the file is opened and read
ReadOk ==
  /\ pc = "read"
  /\ input_file \in DOMAIN files
  /\ content' = files[input_file]
  /\ pc' = "imports"
  /\ UNCHANGED <<argv, files, input_file, output_file, stdout, opens, raised>>

\* a run that opens its output for writing before it reads its input: the
\* failed read leaves an empty output file
ReadFailOutputOpened ==
  /\ pc = "read"
  /\ files' = Put(files, output_file, <<>>)
  /\ opens' = opens + 1
  /\ pc' = "error"
  /\ raised' = "read"
  /\ UNCHANGED <<argv, input_file, output_file, content, stdout>>

\* lines 11-12: open or read raises (no such file, or an unreadable one), and
\* nothing catches it
ReadFail ==
  /\ pc = "read"
  /\ pc' = "error"
  /\ raised' = "read"
  /\ UNCHANGED <<argv, files, input_file, output_file, content, stdout, opens>>

\* one rule: content = re.sub(..., content)
Rule(at, next, result) ==
  /\ pc = at
  /\ content' = result
  /\ pc' = next
  /\ UNCHANGED <<argv, files, input_file, output_file, stdout, opens, raised>>

StepImports == Rule("imports", "pgTable", UpdateImports(content))
StepPgTable == Rule("pgTable", "pgEnum", ReplacePgTable(content))
StepPgEnum == Rule("pgEnum", "varchar", RemovePgEnumDecls(content))
StepVarchar == Rule("varchar", "timestamp", ReplaceVarchar(content))
StepTimestamp == Rule("timestamp", "jsonb", ReplaceTimestamp(content))
StepJsonb == Rule("jsonb", "decimal", ReplaceJsonb(content))
StepDecimal == Rule("decimal", "date", ReplaceDecimal(content))
StepDate == Rule("date", "enumRefs", ReplaceDate(content))
StepEnumRefs == Rule("enumRefs", "uuid", ReplaceEnumRefs(content))
StepUuid == Rule("uuid", "defaultNow", ReplaceUuidDefault(content))
StepDefaultNow == Rule("defaultNow", "tsDefault", RemoveDefaultNow(content))
StepTsDefault == Rule("tsDefault", "comment", FixTimestampDefaults(content))
StepComment == Rule("comment", "write", InsertComment(content))

\* lines 96-97: the output is opened for writing and the buffer written
WriteOk ==
  /\ pc = "write"
  /\ files' = Put(files, output_file, content)
  /\ opens' = opens + 1
  /\ pc' = "print"
  /\ UNCHANGED <<argv, input_file, output_file, content, stdout, raised>>

\* lines 96-97: the open raises and the path is left as it was, or the write
\* raises after the open has truncated the file and leaves a part of the
\* buffer in it; nothing catches either
WriteFail ==
  /\ pc = "write"
  /\ \/ files' = files
     \/ \E n \in 0..MaxPartial :
          /\ n < Len(content)
          /\ files' = Put(files, output_file, SubSeq(content, 1, n))
  /\ opens' = opens + 1
  /\ pc' = "error"
  /\ raised' = "write"
  /\ UNCHANGED <<argv, input_file, output_file, content, stdout>>

\* lines 99-105: the summary
Summary ==
  <<[line |-> "Schema converted successfully!", path |-> <<>>],
    [line |-> "   Input: ", path |-> input_file],
    [line |-> "   Output: ", path |-> output_file],
    [line |-> "Manual review needed for:", path |-> <<>>],
    [line |-> "   - Default timestamp values (SQLite uses different approach)",
     path |-> <<>>],
    [line |-> "   - JSON field validation (jsonb -> text)", path |-> <<>>],
    [line |-> "   - Enum value validation (add CHECK constraints if needed)",
     path |-> <<>>]>>

PrintSummary ==
  /\ pc = "print"
  /\ stdout' = Summary
  /\ pc' = "done"
  /\ UNCHANGED <<argv, files, input_file, output_file, content, opens, raised>>

Next ==
  \/ Main
  \/ ReadOk
  \/ ReadFail
  \/ StepImports
  \/ StepPgTable
  \/ StepPgEnum
  \/ StepVarchar
  \/ StepTimestamp
  \/ StepJsonb
  \/ StepDecimal
  \/ StepDate
  \/ StepEnumRefs
  \/ StepUuid
  \/ StepDefaultNow
  \/ StepTsDefault
  \/ StepComment
  \/ WriteOk
  \/ WriteFail
  \/ PrintSummary

Spec == Init /\ [][Next]_vars

CliSpec == CliInit /\ [][Next]_vars

(***************************************************************************)
(* What the claims speak of.  Source and Output are read in states where   *)
(* the run has ended well (pc = "done"); under Spec the two paths differ,  *)
(* so Source is still the text the run read.                               *)
(***************************************************************************)
Source == files[input_file]
Output == files[output_file]

\* the positions of s where a maximal run of word characters starts
WordStarts(s) ==
  {i \in 1..Len(s) : s[i] \in WordChars /\ (i = 1 \/ s[i-1] \notin WordChars)}

\* the identifiers of s: its maximal runs of word characters
Words(s) == {SubSeq(s, i, i + RunLen("w", s, i) - 1) : i \in WordStarts(s)}

\* the length of the run of characters that are no word characters at s[i]
GapLen(s, i) ==
  LET stops == {j \in i..Len(s) : s[j] \in WordChars}
  IN IF stops = {} THEN Len(s) + 1 - i
     ELSE (CHOOSE j \in stops : \A h \in stops : j <= h) - i

RECURSIVE MapWords(_, _)
\* s from position i on, identifier by identifier: the identifier pgTable
\* becomes sqliteTable, every other identifier and all text between
\* identifiers stays
MapWords(s, i) ==
  IF i > Len(s) THEN <<>>
  ELSE IF s[i] \in WordChars
       THEN LET w == SubSeq(s, i, i + RunLen("w", s, i) - 1)
            IN (IF w = PgTableWord THEN SqliteTableWord ELSE w)
                 \o MapWords(s, i + Len(w))
       ELSE SubSeq(s, i, i + GapLen(s, i) - 1)
              \o MapWords(s, i + GapLen(s, i))

\* C1 as stated: in the output of every run, each whole-word pgTable of the
\* input has become sqliteTable, and every identifier of the input that
\* merely contains pgTable is still an identifier of the output.
C1_WholeOutput ==
  pc = "done" =>
    /\ PgTableWord \in Words(Source) => SqliteTableWord \in Words(Output)
    /\ \A w \in Words(Source) :
         (w # PgTableWord /\ Contains(w, PgTableWord)) => w \in Words(Output)

\* C1 as amended: the pgTable rule (step 2) turns the buffer into the same
\* text with each identifier that is exactly pgTable replaced by
\* sqliteTable; every other identifier, those that contain pgTable among
\* them, and all other text are left as they are by this rule.
C1_PgTableStep ==
  [][pc = "pgTable" => content' = MapWords(content, 1)]_vars

\* C1's case: after step 2 the buffer holds a rewritten sqliteTable and an
\* identifier that contains pgTable and was kept.
C1_Witness ==
  /\ pc = "pgEnum"
  /\ SqliteTableWord \in Words(content)
  /\ \E w \in Words(content) : w # PgTableWord /\ Contains(w, PgTableWord)

\* the lines of s: the text between its newlines
LineStarts(s) == {1} \cup {i + 1 : i \in {j \in 1..Len(s) : s[j] = "\n"}}
LineAt(s, i) == SubSeq(s, i, i + RunLen("nl", s, i) - 1)
Lines(s) == {LineAt(s, i) : i \in LineStarts(s)}

\* a line of the form export const <name>Enum = pgEnum(<args>);
DeclLinePattern ==
  Lit(ExportConst) \o Plus("w") \o Lit(EnumEqPgEnum) \o Plus("nl")
    \o Lit(<<")", ";">>)
IsDeclLine(l) ==
  LET m == Match(DeclLinePattern, 1, l, 1)
  IN m # <<>> /\ m[Len(m)] = Len(l) + 1

RECURSIVE DropDeclLines(_, _)
\* s from the line starting at i on, without its declaration lines and
\* their newlines
DropDeclLines(s, i) ==
  IF i > Len(s) THEN <<>>
  ELSE LET l == LineAt(s, i)
           next == i + Len(l) + 1
       IN (IF IsDeclLine(l) THEN <<>>
           ELSE SubSeq(s, i, IF next - 1 > Len(s) THEN Len(s) ELSE next - 1))
            \o DropDeclLines(s, next)

\* C2: every line of the input that is an enum declaration is absent from
\* the output, wherever it stands (the last line included), and the
\* enum-stripping rule (step 3) removes the declaration lines with their
\* newlines and changes nothing else.
C2_DeclLinesStripped ==
  /\ pc = "done" =>
       \A l \in Lines(Source) : IsDeclLine(l) => l \notin Lines(Output)
  /\ pc = "varchar" =>
       content = DropDeclLines(ReplacePgTable(UpdateImports(Source)), 1)

\* the tail of integer("<col>", { mode: 'timestamp' })
TimestampModePlain ==
  <<"\"",","," ","{"," ","m","o","d","e",":"," ","'","t","i","m","e","s",
    "t","a","m","p","'"," ","}",")">>

\* C3: for every call timestamp("<col>") of the input, the output holds
\* integer("<col>", { mode: 'timestamp' }) with the same column name.
C3_TimestampToInteger ==
  pc = "done" =>
    \A i \in 1..Len(Source) :
      LET m == Match(TimestampPattern, 1, Source, i) IN
        m # <<>> =>
          Contains(Output, IntegerOpen \o SubSeq(Source, m[2], m[3] - 1)
                             \o TimestampModePlain)

\* C4: for every call <name>Enum("<col>") of the input whose <name>Enum the
\* input declares with pgEnum, the output holds text("<col>") with the same
\* column name, and no call of the form <name>Enum("<col>") is left in the
\* output.
C4_EnumUseToText ==
  pc = "done" =>
    \A i \in 1..Len(Source) :
      LET m == Match(enum_pattern, 1, Source, i) IN
        (/\ m # <<>>
         /\ Contains(Source, ExportConst \o SubSeq(Source, m[1], m[2] - 1)
                               \o EnumEqPgEnum))
        => /\ Contains(Output, TextOpen \o SubSeq(Source, m[4], m[5] - 1)
                                 \o <<"\"", ")">>)
           /\ \A j \in 1..Len(Output) : Match(enum_pattern, 1, Output, j) = <<>>

\* C5: a second run on the output of a run changes nothing, when that
\* output does not hold the zod import line.
C5_SecondRunNoOp ==
  (pc = "done" /\ ~Contains(Output, ZodImport)) => Convert(Output) = Output

\* the number of places where sub stands in s
Count(s, sub) == Cardinality({i \in 1..Len(s) : OccursAt(s, sub, i)})

\* the 0-based index of the end of the line that the 0-based index i is in:
\* that of its newline, or the length of s when the line is the last one
\* and has no newline
LineEnd(s, i) ==
  LET nl == Find(s, <<"\n">>, i) IN IF nl = -1 THEN Len(s) - 1 ELSE nl

\* C6: with the zod import in the document, the output is the result of
\* the rules with the comment block put in once, right after the end of
\* the first line that holds the import (also when that line is the last
\* one and has no newline); without it, the output is the result of the
\* rules alone.
C6_CommentAfterAnchorLine ==
  pc = "done" =>
    LET r == ApplyRules(Source)
        at == Find(r, ZodImport, 0)
    IN IF at = -1 THEN Output = r
       ELSE /\ Output = SliceTo(r, LineEnd(r, at) + 1) \o enum_comment
                          \o SliceFrom(r, LineEnd(r, at) + 1)
            /\ Count(Output, enum_comment) = 1

\* the 1-based position of the extension of path p: that of the last dot
\* of its last component, or past the end of p when it has none
ExtStart(p) ==
  LET slashes == {i \in 1..Len(p) : p[i] = "/"}
      base == IF slashes = {} THEN 1
              ELSE 1 + CHOOSE i \in slashes : \A j \in slashes : j <= i
      dots == {i \in (base + 1)..Len(p) : p[i] = "."}
  IN IF dots = {} THEN Len(p) + 1
     ELSE CHOOSE i \in dots : \A j \in dots : j <= i

SqliteSuffix ==
  <<"-","s","q","l","i","t","e">>

\* p with -sqlite put in once, right before its extension
WithSqliteSuffix(p) ==
  SubSeq(p, 1, ExtStart(p) - 1) \o SqliteSuffix \o SubSeq(p, ExtStart(p), Len(p))

\* C7: with one argument the output path is the input path with -sqlite
\* put in once right before the extension, whatever the path; with two
\* arguments it is the second argument.
C7_OutputPath ==
  pc # "main" =>
    /\ Len(argv) = 2 => output_file = WithSqliteSuffix(ArgvAt(1))
    /\ Len(argv) = 3 => output_file = ArgvAt(2)

\* C8, what holds in every state: the output is opened at most once and
\* only by the write statement; what is about to be written is the text
\* read with every rule and the comment insertion applied; a failed read
\* ends the run with the output never opened and nothing printed; a failed
\* write ends it with nothing printed; the summary is printed only with
\* the buffer written, whole, to a successfully opened output.
C8_Sequenced ==
  /\ opens <= 1
  /\ opens = 1 => pc \in {"print", "done", "error"}
  /\ pc = "write" => content = Convert(files[input_file])
  /\ raised = "read" => (pc = "error" /\ opens = 0 /\ stdout = <<>>)
  /\ raised = "write" => (pc = "error" /\ stdout = <<>>)
  /\ pc = "error" => raised # "none"
  /\ stdout # <<>> =>
       /\ raised = "none"
       /\ opens = 1
       /\ output_file \in DOMAIN files
       /\ files[output_file] = content

\* C8, what holds of every step: only the write statement opens the output
\* or changes the file system, and it changes no path but the output path.
C8_OnlyWriteTouchesFiles ==
  (files' # files \/ opens' # opens) =>
    /\ pc = "write"
    /\ opens' = opens + 1
    /\ \A p \in DOMAIN files :
         p # output_file => (p \in DOMAIN files' /\ files'[p] = files[p])
    /\ DOMAIN files' \subseteq (DOMAIN files) \cup {output_file}

\* C8: a run is read, then all rules, then one write, then the summary, and
\* any failure ends it.
C8_ReadRulesWriteSummary ==
  []C8_Sequenced /\ [][C8_OnlyWriteTouchesFiles]_vars

\* C8's case: a run that read its input, wrote the converted text to
\* another path and printed the summary.
C8_Witness ==
  /\ pc = "done"
  /\ opens = 1
  /\ stdout = Summary
  /\ input_file # output_file
  /\ files[output_file] = Convert(files[input_file])
  /\ files[output_file] # files[input_file]

\* C9: the output of a run holds no .defaultNow() at all.
C9_NoDefaultNow ==
  pc = "done" => ~Contains(Output, DefaultNowCall)

\* C10: with no or one argument, the path a run has written its output to
\* differs from its input path: the write never goes to the input file.
C10_InputNotOverwritten ==
  (Len(argv) <= 2 /\ pc \in {"print", "done"}) => output_file # input_file

=============================================================================
